---- MODULE Spec2Model ----
(***************************************************************************)
(* Block-sparse reindexing and contraction of spherical expansion          *)
(* coefficients: utils/librascal.py (RascalSphericalExpansion,             *)
(* RascalPairExpansion, SphericalExpansionAutograd) and                    *)
(* utils/models/soap.py (compute_power_spectrum).                          *)
(*                                                                         *)
(* Indices stored in labels are 0-based as in the Python code; TLA+        *)
(* sequences are 1-based, so row r of an array is element r + 1.           *)
(* Floating point coefficients produced by the external calculator are     *)
(* kept symbolic: the coefficient at data[c, s, n, lm] is the tuple        *)
(* <<c, s, n, lm>>, so that every slicing or reshaping step is visible.    *)
(***************************************************************************)
EXTENDS Integers, Sequences, FiniteSets, Bags, TLC

VARIABLES
    pc,          \* position of the running function
    frames,      \* compute(frames): list of structures, each a list of atomic numbers
    hypers,      \* the hyper-parameters copied from self._hypers
    info,        \* manager.get_representation_info()
    grad_info,   \* manager.get_gradients_info()
    zero_norm,   \* rows of grad_info whose gradient coefficients are exactly zero
    sparse_i,    \* index of the key the block loop is at
    blocks,      \* the list of blocks built so far
    descriptor,  \* the returned value
    error,       \* the message of the exception raised, if any
    ijframes,    \* RascalPairExpansion: the relabelled copies of the structures
    calculator,  \* RascalPairExpansion: the calculator, once constructed
    pair_data,   \* RascalPairExpansion: `data`, the rows kept per structure
    pair_samples,\* RascalPairExpansion: `samples`, the rows kept per structure
    needs_input_grad, \* backward: ctx.needs_input_grad
    saved_tensors,    \* backward: ctx.saved_tensors
    grad_positions,   \* backward: the position gradient being accumulated
    sample,           \* backward: index of the grad_info row the loop is at
    spherical_expansion_1, \* compute_power_spectrum: first collection, (key, block) list
    spherical_expansion_2, \* compute_power_spectrum: second collection, or NoCollection
    use_same_spherical_expansions,
    keys,        \* compute_power_spectrum: the keys recorded so far
    i1,          \* compute_power_spectrum: position of the outer loop (1-based)
    i2,          \* compute_power_spectrum: inner iterations done for the current i1
    spx_1,       \* compute_power_spectrum: the loop variable spx_1
    skipped      \* history: keys of the pairs left at the empty-gradient `continue`

inVars == <<frames, hypers>>
outVars == <<blocks, descriptor, error>>
sphVars == <<info, grad_info, zero_norm, sparse_i>>
pairVars == <<ijframes, calculator, pair_data, pair_samples>>
bwVars == <<needs_input_grad, saved_tensors, grad_positions, sample>>
psVars == <<spherical_expansion_1, spherical_expansion_2, use_same_spherical_expansions,
            keys, i1, i2, spx_1, skipped>>
vars == <<pc, inVars, outVars, sphVars, pairVars, bwVars, psVars>>

(***************************************************************************)
(* Bounds of the model.                                                    *)
(***************************************************************************)
MaxAtoms == 3        \* total number of atoms over all structures
MaxAngular == 1      \* largest max_angular
MaxRadial == 2       \* largest max_radial
MaxImages == 2       \* largest number of periodic images of one neighbour
SpeciesSet == {1, 8} \* atomic numbers the structures draw from

None == "None"

\* spherical_expansion_2 = None: the collection that was not given
NoCollection == <<>>

(***************************************************************************)
(* Generic helpers.                                                        *)
(***************************************************************************)
Range(s) == {s[k] : k \in DOMAIN s}

Min(S) == CHOOSE x \in S : \A y \in S : x <= y

RECURSIVE SortedSeq(_)
\* np.unique: the sorted sequence of the distinct elements
SortedSeq(S) == IF S = {} THEN <<>> ELSE <<Min(S)>> \o SortedSeq(S \ {Min(S)})

RECURSIVE Concat(_)
\* np.concatenate / list building over a sequence of sequences
Concat(ss) == IF ss = <<>> THEN <<>> ELSE Head(ss) \o Concat(Tail(ss))

\* list.index: 0-based position of the first occurrence
IndexOf(s, x) == Min({k \in DOMAIN s : s[k] = x}) - 1

\* np.where(mask)[0]: the 0-based rows of s that satisfy P, increasing
Where(s, P(_)) == SortedSeq({k - 1 : k \in {j \in DOMAIN s : P(s[j])}})

IsDistinct(s) == \A a, b \in DOMAIN s : a # b => s[a] # s[b]

\* block.has_gradient("positions") and block.gradient("positions"); a block keeps
\* its gradients as a list of (parameter, samples, data) entries
has_gradient(b) == \E k \in DOMAIN b.gradients : b.gradients[k].parameter = "positions"
gradient(b) == b.gradients[CHOOSE k \in DOMAIN b.gradients : b.gradients[k].parameter = "positions"]

(***************************************************************************)
(* Inputs of compute(): non-empty lists of non-empty structures.           *)
(***************************************************************************)
FrameSet == UNION {[1..n -> SpeciesSet] : n \in 1..MaxAtoms}

RECURSIVE TotalAtoms(_)
TotalAtoms(fs) == IF fs = <<>> THEN 0 ELSE Len(Head(fs)) + TotalAtoms(Tail(fs))

FramesSet ==
    {fs \in UNION {[1..k -> FrameSet] : k \in 1..MaxAtoms} : TotalAtoms(fs) <= MaxAtoms}

HypersSet ==
    [max_angular : 0..MaxAngular, max_radial : 1..MaxRadial, compute_gradients : BOOLEAN]

(***************************************************************************)
(* The external calculator (librascal): what transform() reports.         *)
(***************************************************************************)
\* global flat index of the first atom of structure s (0-based s)
Offset(fs, s) == TotalAtoms(SubSeq(fs, 1, s))

\* get_representation_info(): one row (structure, global atom, species) per centre
RepresentationInfo(fs) ==
    Concat([s \in 1..Len(fs) |->
        [a \in 1..Len(fs[s]) |-> <<s - 1, Offset(fs, s - 1) + a - 1, fs[s][a]>>]])

\* get_gradients_info(): one row (structure, centre, neighbour, centre species,
\* neighbour species) per pair of the neighbour list, with global atom indices.
\* `reach` is what the cutoff sees: only the centre itself ("self") or every atom
\* of the structure ("all"); every such pair is listed once per periodic image.
GradientsInfo(fs, reach, images) ==
    Concat([s \in 1..Len(fs) |->
        Concat([a \in 1..Len(fs[s]) |->
            Concat([b \in 1..Len(fs[s]) |->
                IF reach = "all" \/ a = b
                THEN [k \in 1..images |->
                        <<s - 1, Offset(fs, s - 1) + a - 1, Offset(fs, s - 1) + b - 1,
                          fs[s][a], fs[s][b]>>]
                ELSE <<>>])])])

\* data[c, s, n, lm] and gradients[r, s, n, lm] after the reshape of lines 61-66
Coef(c, s, n, lm) == <<"x", c, s, n, lm>>
GradCoef(r, s, n, lm) == <<"dx", r, s, n, lm>>

(***************************************************************************)
(* RascalSphericalExpansion.compute                                        *)
(***************************************************************************)
\* np.unique(np.concatenate([f.numbers for f in frames]))
global_species(fs) == SortedSeq(Range(Concat(fs)))

\* sparse with `range(max_angular)` in place of `range(max_angular + 1)`
sparse_short_range(fs, h) ==
    LET gs == global_species(fs)
        S == Len(gs)
    IN  [k \in 1..(h.max_angular * S * S) |->
            <<(k - 1) \div (S * S), gs[(((k - 1) \div S) % S) + 1], gs[((k - 1) % S) + 1]>>]

\* the keys: [l, center_species, neighbor_species] for l, for center, for neighbor
sparse(fs, h) ==
    LET gs == global_species(fs)
        S == Len(gs)
    IN  [k \in 1..((h.max_angular + 1) * S * S) |->
            <<(k - 1) \div (S * S), gs[(((k - 1) \div S) % S) + 1], gs[((k - 1) % S) + 1]>>]

RECURSIVE lm_start(_)
\* start of lm_slices[l]
lm_start(l) == IF l = 0 THEN 0 ELSE lm_start(l - 1) + 2 * (l - 1) + 1

\* lm_slices[l] as the list of the columns it selects
lm_slices(l) == [m \in 1..(2 * l + 1) |-> lm_start(l) + m - 1]

\* global_to_per_structure_atom_id that keeps the calculator's flat index
global_to_per_structure_atom_id_flat(fs) ==
    [g \in 1..TotalAtoms(fs) |-> g - 1]

\* for frame in frames: for i in range(len(frame)): append(i)
global_to_per_structure_atom_id(fs) ==
    Concat([s \in 1..Len(fs) |-> [a \in 1..Len(fs[s]) |-> a - 1]])

\* Labels(["n"], range(max_radial))
features(h) == [n \in 1..h.max_radial |-> n - 1]

\* Labels(["spherical_harmonics_m"], range(-l, l + 1))
spherical_component(l) == [m \in 1..(2 * l + 1) |-> m - 1 - l]

\* center_species_mask that selects every centre
center_species_mask_all(inf, cs) == Where(inf, LAMBDA row : TRUE)

\* np.where(info[:, 2] == center_species)[0]
center_species_mask(inf, cs) == Where(inf, LAMBDA row : row[3] = cs)

\* the samples before the atom index is reset: info[center_species_mask, :2]
raw_samples(inf, cs) ==
    LET mask == center_species_mask(inf, cs)
    IN  [i \in DOMAIN mask |-> <<inf[mask[i] + 1][1], inf[mask[i] + 1][2]>>]

\* data[center_species_mask, neighbor_species_i, :, lm_slices[l]].swapaxes(1, 2)
block_data(fs, inf, h, key) ==
    LET mask == center_species_mask(inf, key[2])
        ns_i == IndexOf(global_species(fs), key[3])
        lm   == lm_slices(key[1])
    IN  [i \in DOMAIN mask |-> [m \in DOMAIN lm |-> [n \in 1..h.max_radial |->
            Coef(mask[i], ns_i, n - 1, lm[m])]]]

\* the rows of grad_info kept for sample (structure, center): the mask of lines
\* 102-108 without the rows skipped at line 120
gradient_rows(ginf, zn, structure, center, neighbor_species) ==
    SelectSeq(
        Where(ginf, LAMBDA row :
            row[1] = structure /\ row[2] = center /\ row[5] = neighbor_species),
        LAMBDA g : g \notin zn)

\* gradient_samples.append((sample_i, structure, neighbor)), lines 125-129
gradient_sample(fs, ginf, sample_i, g) ==
    <<sample_i, ginf[g + 1][1], global_to_per_structure_atom_id(fs)[ginf[g + 1][3] + 1]>>

\* the gradient sample rows of one block, lines 99-144
gradient_samples(fs, inf, ginf, zn, key) ==
    LET raw == raw_samples(inf, key[2])
    IN  Concat([i \in DOMAIN raw |->
            LET rows == gradient_rows(ginf, zn, raw[i][1], raw[i][2], key[3])
            IN  [j \in DOMAIN rows |-> gradient_sample(fs, ginf, i - 1, rows[j])]])

\* the gradient values of one block: gradients[3g:3g+3, ns_i, :, lm_slices[l]],
\* axes swapped to (direction, m, n), lines 111-123 and 132
block_gradients(fs, inf, ginf, zn, h, key) ==
    LET raw  == raw_samples(inf, key[2])
        ns_i == IndexOf(global_species(fs), key[3])
        lm   == lm_slices(key[1])
    IN  Concat([i \in DOMAIN raw |->
            LET rows == gradient_rows(ginf, zn, raw[i][1], raw[i][2], key[3])
            IN  [j \in DOMAIN rows |-> [x \in 1..3 |-> [m \in DOMAIN lm |->
                    [n \in 1..h.max_radial |->
                        GradCoef(3 * rows[j] + x - 1, ns_i, n - 1, lm[m])]]]]])

\* reset atom index (librascal uses a global atom index), lines 147-156
reset_samples(fs, raw) ==
    [i \in DOMAIN raw |-> <<raw[i][1], global_to_per_structure_atom_id(fs)[raw[i][2] + 1]>>]

\* one iteration of the loop over the keys, lines 74-179
build_block(fs, inf, ginf, zn, h, key) ==
    [ samples    |-> reset_samples(fs, raw_samples(inf, key[2])),
      components |-> spherical_component(key[1]),
      features   |-> features(h),
      values     |-> block_data(fs, inf, h, key),
      gradients  |-> IF h.compute_gradients
                     THEN <<[ parameter |-> "positions",
                              samples   |-> gradient_samples(fs, inf, ginf, zn, key),
                              data      |-> block_gradients(fs, inf, ginf, zn, h, key) ]>>
                     ELSE <<>> ]

\* rows of grad_info the calculator reports with exactly zero coefficients
ZeroRows(ginf, which) ==
    IF which = "self"
    THEN {g \in 0..(Len(ginf) - 1) : ginf[g + 1][2] = ginf[g + 1][3]}
    ELSE {}

\* the variables of RascalSphericalExpansion.compute before it runs
SphIdle == info = <<>> /\ grad_info = <<>> /\ zero_norm = {} /\ sparse_i = 0

\* the variables of RascalPairExpansion.compute before it runs
PairIdle == ijframes = <<>> /\ calculator = None /\ pair_data = <<>> /\ pair_samples = <<>>

\* the variables of SphericalExpansionAutograd before it runs
BwIdle ==
    /\ needs_input_grad = <<>>
    /\ saved_tensors = <<>>
    /\ grad_positions = <<>>
    /\ sample = 0

\* the variables of compute_power_spectrum before it runs
PsIdle ==
    /\ spherical_expansion_1 = <<>>
    /\ spherical_expansion_2 = <<>>
    /\ use_same_spherical_expansions = FALSE
    /\ keys = <<>>
    /\ i1 = 0
    /\ i2 = 0
    /\ spx_1 = None
    /\ skipped = <<>>

SphInit ==
    /\ pc = "sph_start"
    /\ frames \in FramesSet
    /\ hypers \in HypersSet
    /\ blocks = <<>>
    /\ descriptor = None
    /\ error = None
    /\ SphIdle /\ PairIdle /\ BwIdle /\ PsIdle

\* Step 1, lines 20-33: the calculator runs over all the structures
SphTransform ==
    /\ pc = "sph_start"
    /\ info' = RepresentationInfo(frames)
    /\ \E reach \in {"self", "all"}, images \in 1..MaxImages, which \in {"none", "self"} :
        /\ grad_info' = IF hypers.compute_gradients
                        THEN GradientsInfo(frames, reach, images) ELSE <<>>
        /\ zero_norm' = ZeroRows(grad_info', which)
    /\ pc' = "sph_blocks"
    /\ UNCHANGED <<inVars, sparse_i, outVars, pairVars, bwVars, psVars>>

\* one iteration of `for sparse_i, (l, center_species, neighbor_species) in enumerate(sparse)`
SphBlock ==
    /\ pc = "sph_blocks"
    /\ sparse_i < Len(sparse(frames, hypers))
    /\ blocks' = Append(blocks,
            build_block(frames, info, grad_info, zero_norm, hypers,
                        sparse(frames, hypers)[sparse_i + 1]))
    /\ sparse_i' = sparse_i + 1
    /\ UNCHANGED <<pc, inVars, info, grad_info, zero_norm, descriptor, error, pairVars, bwVars, psVars>>

\* return Descriptor(sparse, blocks)
SphReturn ==
    /\ pc = "sph_blocks"
    /\ sparse_i = Len(sparse(frames, hypers))
    /\ descriptor' = [keys |-> sparse(frames, hypers), blocks |-> blocks]
    /\ pc' = "done"
    /\ UNCHANGED <<inVars, sphVars, blocks, error, pairVars, bwVars, psVars>>

SphNext == SphTransform \/ SphBlock \/ SphReturn

SpecSph == SphInit /\ [][SphNext]_vars

(***************************************************************************)
(* Properties of RascalSphericalExpansion.compute                          *)
(***************************************************************************)
SpeciesOf(fs) == UNION {Range(fs[s]) : s \in DOMAIN fs}

\* the (structure, local atom) pairs of the atoms of species cs
CentresOf(fs, cs) ==
    UNION {{<<s - 1, a - 1>> : a \in {x \in DOMAIN fs[s] : fs[s][x] = cs}} : s \in DOMAIN fs}

\* block b holds what key (l, cs, ns) asks for: the 2l+1 components of l, the
\* centres of species cs, and coefficients of the neighbour channel of ns only
BlockIsFor(fs, b, key) ==
    /\ Len(b.components) = 2 * key[1] + 1
    /\ Range(b.samples) = CentresOf(fs, key[2])
    /\ Len(b.values) = Len(b.samples)
    /\ \A i \in DOMAIN b.values : \A m \in DOMAIN b.values[i] :
         \A n \in DOMAIN b.values[i][m] :
            Cardinality({sp \in SpeciesOf(fs) : sp < key[3]}) = b.values[i][m][n][3]

\* C1: compute returns exactly (L_max+1) * |S|^2 blocks, one per key
\* (l, center_species, neighbor_species) of the full cross-product of the distinct
\* species S, with no duplicate key, the blocks in the order of the keys.
C1_OneBlockPerKey ==
    pc = "done" =>
        LET S == SpeciesOf(frames)
        IN  /\ Len(descriptor.blocks) = (hypers.max_angular + 1) * Cardinality(S) * Cardinality(S)
            /\ Len(descriptor.keys) = Len(descriptor.blocks)
            /\ IsDistinct(descriptor.keys)
            /\ Range(descriptor.keys) = (0..hypers.max_angular) \X S \X S
            /\ \A k \in DOMAIN descriptor.keys :
                 BlockIsFor(frames, descriptor.blocks[k], descriptor.keys[k])

\* C1 witness: a call over two species with max_angular = 1 has returned its 8 blocks
C1_Witness ==
    /\ pc = "done"
    /\ Cardinality(SpeciesOf(frames)) = 2
    /\ hypers.max_angular = 1
    /\ Len(descriptor.blocks) = 8

\* C2: every sample row (structure, center) and every gradient sample row
\* (sample, structure, atom) of every block names an atom by its index inside its
\* own structure: 0 <= index < len(frames[structure]).
C2_LocalAtomIndices ==
    \A k \in DOMAIN blocks :
        /\ \A i \in DOMAIN blocks[k].samples :
             LET row == blocks[k].samples[i]
             IN  /\ row[1] \in 0..(Len(frames) - 1)
                 /\ row[2] \in 0..(Len(frames[row[1] + 1]) - 1)
        /\ has_gradient(blocks[k]) =>
             \A g \in DOMAIN gradient(blocks[k]).samples :
                LET row == gradient(blocks[k]).samples[g]
                IN  /\ row[2] \in 0..(Len(frames) - 1)
                    /\ row[3] \in 0..(Len(frames[row[2] + 1]) - 1)

\* C2 witness: a block holds a centre and a gradient neighbour of a structure
\* other than the first, whose global index differs from its local one
C2_Witness ==
    \E k \in DOMAIN blocks :
        /\ \E i \in DOMAIN blocks[k].samples : blocks[k].samples[i][1] > 0
        /\ has_gradient(blocks[k])
        /\ \E g \in DOMAIN gradient(blocks[k]).samples : gradient(blocks[k]).samples[g][2] > 0

\* C6 (as claimed): in every block that carries a positions gradient, the sample
\* field of every gradient sample row is a row index of the block's samples, and
\* the gradient sample rows are distinct.
C6_GradientSamplesValid ==
    \A k \in DOMAIN blocks :
        has_gradient(blocks[k]) =>
            /\ \A g \in DOMAIN gradient(blocks[k]).samples :
                 gradient(blocks[k]).samples[g][1] \in 0..(Len(blocks[k].samples) - 1)
            /\ IsDistinct(gradient(blocks[k]).samples)

\* the end-to-end scenario of C7: two single-atom structures of two species
TwoSingleAtomStructures ==
    /\ Len(frames) = 2
    /\ Len(frames[1]) = 1
    /\ Len(frames[2]) = 1
    /\ frames[1][1] # frames[2][1]
    /\ hypers.max_angular = 1
    /\ hypers.max_radial = 1

\* C7 (as claimed): in the scenario the keys range over the two species present
\* and every block whose center_species differs from its neighbor_species has
\* zero samples.
C7_CrossSpeciesBlocksEmpty ==
    (pc = "done" /\ TwoSingleAtomStructures) =>
        /\ \A k \in DOMAIN descriptor.keys :
             {descriptor.keys[k][2], descriptor.keys[k][3]} \subseteq {frames[1][1], frames[2][1]}
        /\ \A k \in DOMAIN descriptor.keys :
             descriptor.keys[k][2] # descriptor.keys[k][3] =>
                Len(descriptor.blocks[k].samples) = 0

\* C7 (amended): in the scenario the keys range over the two species present and
\* every block, whatever its neighbor_species, has exactly one sample: the single
\* atom (local index 0) of the structure whose species is the block's center_species.
C7_OneSamplePerBlock ==
    (pc = "done" /\ TwoSingleAtomStructures) =>
        /\ \A k \in DOMAIN descriptor.keys :
             {descriptor.keys[k][2], descriptor.keys[k][3]} \subseteq {frames[1][1], frames[2][1]}
        /\ \A k \in DOMAIN descriptor.keys :
             descriptor.blocks[k].samples =
                <<IF descriptor.keys[k][2] = frames[1][1] THEN <<0, 0>> ELSE <<1, 0>>>>

\* C7 witness: the scenario has returned, with a cross-species block among the 8
C7_Witness ==
    /\ pc = "done"
    /\ TwoSingleAtomStructures
    /\ Len(descriptor.blocks) = 8
    /\ \E k \in DOMAIN descriptor.keys : descriptor.keys[k][2] # descriptor.keys[k][3]

(***************************************************************************)
(* RascalPairExpansion.compute                                             *)
(***************************************************************************)
Max(S) == CHOOSE x \in S : \A y \in S : x >= y

\* the gradient check that lets every call through
gradients_unsupported_never(h) == FALSE

\* if hypers["compute_gradients"]: raise Exception(...), lines 191-192
gradients_unsupported(h) == h.compute_gradients

\* max([len(f) for f in frames])
max_atoms(fs) == Max({Len(fs[s]) : s \in DOMAIN fs})

\* list(range(max_atoms)): one pseudo-species per atom position
pair_global_species(fs) == [k \in 1..max_atoms(fs) |-> k - 1]

\* ijf = f.copy(); ijf.numbers = global_species[:len(f)], lines 200-204
relabelled(fs) == [s \in DOMAIN fs |-> SubSeq(pair_global_species(fs), 1, Len(fs[s]))]

\* SphericalExpansion(**hypers), line 206
pair_calculator(fs, h) ==
    [ max_angular |-> h.max_angular,
      max_radial |-> h.max_radial,
      compute_gradients |-> h.compute_gradients,
      global_species |-> pair_global_species(fs),
      expansion_by_species_method |-> "user defined" ]

\* Labels(["spherical_harmonics_l"], range(max_angular + 1))
pair_sparse(h) == [k \in 1..(h.max_angular + 1) |-> <<k - 1>>]

\* idata[a, b, n, lm]: the calculator's coefficients for structure s
PairCoef(s, a, b, n, lm) == <<"x", s, a, b, n, lm>>

\* np.where((idata**2).sum(axis=(2, 3)) > 1e-20): the (centre, pseudo-species)
\* pairs with a non-zero expansion, row-major; the calculator sees the centre
\* alone ("self") or every atom of the structure ("all")
nonzero(ijf, reach) ==
    Concat([a \in 1..Len(ijf) |->
        Concat([b \in 1..Len(ijf) |->
            IF reach = "all" \/ a = b THEN <<<<a - 1, b - 1>>>> ELSE <<>>])])

\* idata[nonzero[0], nonzero[1]].reshape(len(nonzero[0]), max_radial, -1)
pair_rows(s, nz, h) ==
    [r \in DOMAIN nz |-> [n \in 1..h.max_radial |->
        [lm \in 1..((h.max_angular + 1) * (h.max_angular + 1)) |->
            PairCoef(s, nz[r][1], nz[r][2], n - 1, lm - 1)]]]

\* np.asarray([nonzero[0] * 0 + i, nonzero[0], nonzero[1]]).T
pair_sample_rows(s, nz) == [r \in DOMAIN nz |-> <<s, nz[r][1], nz[r][2]>>]

\* one iteration of `for (l,) in sparse`, lines 251-267
pair_block(dat, smp, h, l) ==
    LET lm == lm_slices(l)
    IN  [ samples    |-> smp,
          components |-> spherical_component(l),
          features   |-> features(h),
          values     |-> [r \in DOMAIN dat |-> [m \in DOMAIN lm |->
                            [n \in 1..h.max_radial |-> dat[r][n][lm[m] + 1]]]],
          gradients  |-> <<>> ]

PairInit ==
    /\ pc = "pair_start"
    /\ frames \in FramesSet
    /\ hypers \in HypersSet
    /\ blocks = <<>>
    /\ descriptor = None
    /\ error = None
    /\ SphIdle /\ PairIdle /\ BwIdle /\ PsIdle

\* raise Exception("Pair expansion with gradient is not implemented")
PairRaise ==
    /\ pc = "pair_start"
    /\ gradients_unsupported(hypers)
    /\ pc' = "raised"
    /\ error' = "Pair expansion with gradient is not implemented"
    /\ UNCHANGED <<inVars, blocks, descriptor, sphVars, pairVars, bwVars, psVars>>

\* lines 194-206: the structures are copied and relabelled, the calculator is built
PairPrepare ==
    /\ pc = "pair_start"
    /\ ~gradients_unsupported(hypers)
    /\ ijframes' = relabelled(frames)
    /\ calculator' = pair_calculator(frames, hypers)
    /\ pc' = "pair_transform"
    /\ UNCHANGED <<inVars, outVars, sphVars, pair_data, pair_samples, bwVars, psVars>>

\* one iteration of `for i, ijf in enumerate(ijframes)`, lines 231-243
PairTransform ==
    /\ pc = "pair_transform"
    /\ Len(pair_data) < Len(ijframes)
    /\ \E reach \in {"self", "all"} :
        LET s  == Len(pair_data)
            nz == nonzero(ijframes[s + 1], reach)
        IN  /\ pair_data' = Append(pair_data, pair_rows(s, nz, hypers))
            /\ pair_samples' = Append(pair_samples, pair_sample_rows(s, nz))
    /\ UNCHANGED <<pc, inVars, outVars, sphVars, ijframes, calculator, bwVars, psVars>>

\* one iteration of `for (l,) in sparse` over the concatenated rows
PairBlock ==
    /\ pc = "pair_transform"
    /\ Len(pair_data) = Len(ijframes)
    /\ Len(blocks) < Len(pair_sparse(hypers))
    /\ blocks' = Append(blocks,
            pair_block(Concat(pair_data), Concat(pair_samples), hypers,
                       pair_sparse(hypers)[Len(blocks) + 1][1]))
    /\ UNCHANGED <<pc, inVars, descriptor, error, sphVars, pairVars, bwVars, psVars>>

\* return Descriptor(sparse, blocks)
PairReturn ==
    /\ pc = "pair_transform"
    /\ Len(pair_data) = Len(ijframes)
    /\ Len(blocks) = Len(pair_sparse(hypers))
    /\ descriptor' = [keys |-> pair_sparse(hypers), blocks |-> blocks]
    /\ pc' = "done"
    /\ UNCHANGED <<inVars, blocks, error, sphVars, pairVars, bwVars, psVars>>

PairNext == PairRaise \/ PairPrepare \/ PairTransform \/ PairBlock \/ PairReturn

SpecPair == PairInit /\ [][PairNext]_vars

\* C9: with the gradient flag set, RascalPairExpansion.compute raises before any
\* structure is copied or relabelled and before a calculator is constructed or
\* invoked; nothing is computed and no collection is returned.
C9_PairGradientFailsFirst ==
    hypers.compute_gradients =>
        /\ pc \in {"pair_start", "raised"}
        /\ ijframes = <<>>
        /\ calculator = None
        /\ pair_data = <<>>
        /\ pair_samples = <<>>
        /\ blocks = <<>>
        /\ descriptor = None
        /\ pc = "raised" => error = "Pair expansion with gradient is not implemented"

\* C9 witness: a call with the gradient flag set has raised
C9_Witness == hypers.compute_gradients /\ pc = "raised"

(***************************************************************************)
(* SphericalExpansionAutograd: forward saves the raw gradient coefficients *)
(* and their metadata, backward turns them into a position gradient.       *)
(* grad_output and the saved coefficients stay symbolic: the product       *)
(* torch.dot(grad_output[c, :], grad_spherical_expansion[r, :]) is the     *)
(* term <<c, r>>, and a sum of such terms is a bag.                        *)
(***************************************************************************)
NeedsInputGradSet == [0..3 -> BOOLEAN]

\* torch.dot(grad_output[center_i, :], grad_spherical_expansion[sample_i, :])
Dot(center_i, sample_i) == SetToBag({<<center_i, sample_i>>})

\* torch.zeros((grad_output.shape[0], 3))
zeros(n) == [a \in 1..n |-> [x \in 1..3 |-> EmptyBag]]

\* the three updates of one grad_info row written with `=` instead of `+=`
accumulate_assign(gp, row, r) ==
    [a \in DOMAIN gp |-> [spatial_i \in 1..3 |->
        IF a = row[3] + 1
        THEN Dot(row[2], 3 * r + spatial_i - 1)
        ELSE gp[a][spatial_i]]]

\* the three `grad_positions[neighbor_i, spatial_i] += ...` of one grad_info row,
\* lines 312-316
accumulate(gp, row, r) ==
    [a \in DOMAIN gp |-> [spatial_i \in 1..3 |->
        IF a = row[3] + 1
        THEN gp[a][spatial_i] (+) Dot(row[2], 3 * r + spatial_i - 1)
        ELSE gp[a][spatial_i]]]

\* line 302: `if ctx.needs_input_grad[0]`
calculator_check(nig) == nig[0]

\* line 304: `if ctx.needs_input_grad[1]`
positions_check(nig) == nig[1]

\* line 318: `if ctx.needs_input_grad[2]`
cell_check(nig) == nig[2]

\* line 320: `if ctx.needs_input_grad[2]`, in front of the atomic numbers error
numbers_check(nig) == nig[2]

BwInit ==
    /\ pc = "fw_start"
    /\ frames \in {<<numbers>> : numbers \in FrameSet}
    /\ hypers \in HypersSet
    /\ blocks = <<>>
    /\ descriptor = None
    /\ error = None
    /\ SphIdle /\ PairIdle /\ BwIdle /\ PsIdle

\* forward, lines 274-294: the calculator runs on the one structure and the
\* gradient coefficients (of width 0 when compute_gradients is off) are saved
BwForward ==
    /\ pc = "fw_start"
    /\ \E reach \in {"self", "all"}, images \in 1..MaxImages :
        LET ginf == GradientsInfo(frames, reach, images)
        IN  saved_tensors' =
                [ grad_spherical_expansion_shape |->
                      <<3 * Len(ginf), IF hypers.compute_gradients THEN 1 ELSE 0>>,
                  grad_info |-> ginf ]
    /\ pc' = "fw_done"
    /\ UNCHANGED <<inVars, outVars, sphVars, pairVars, needs_input_grad, grad_positions, sample, psVars>>

\* autograd calls backward(ctx, grad_samples, grad_output)
BwCall ==
    /\ pc = "fw_done"
    /\ needs_input_grad' \in NeedsInputGradSet
    /\ grad_positions' = None
    /\ pc' = "bw_start"
    /\ UNCHANGED <<inVars, outVars, sphVars, pairVars, saved_tensors, sample, psVars>>

\* raise ValueError("can not compute gradients w.r.t. calculator")
BwRaiseCalculator ==
    /\ pc = "bw_start"
    /\ calculator_check(needs_input_grad)
    /\ pc' = "raised"
    /\ error' = "can not compute gradients w.r.t. calculator"
    /\ UNCHANGED <<inVars, blocks, descriptor, sphVars, pairVars, bwVars, psVars>>

\* raise ValueError("missing gradients, please set compute_gradients to True")
BwRaiseMissing ==
    /\ pc = "bw_start"
    /\ ~calculator_check(needs_input_grad)
    /\ positions_check(needs_input_grad)
    /\ saved_tensors.grad_spherical_expansion_shape[2] = 0
    /\ pc' = "raised"
    /\ error' = "missing gradients, please set compute_gradients to True"
    /\ UNCHANGED <<inVars, blocks, descriptor, sphVars, pairVars, bwVars, psVars>>

\* grad_positions = torch.zeros((grad_output.shape[0], 3))
BwZeros ==
    /\ pc = "bw_start"
    /\ ~calculator_check(needs_input_grad)
    /\ positions_check(needs_input_grad)
    /\ saved_tensors.grad_spherical_expansion_shape[2] # 0
    /\ grad_positions' = zeros(Len(frames[1]))
    /\ sample' = 0
    /\ pc' = "bw_loop"
    /\ UNCHANGED <<inVars, outVars, sphVars, pairVars, needs_input_grad, saved_tensors, psVars>>

\* one iteration of `for sample, (_, center_i, neighbor_i, *_) in enumerate(grad_info)`
BwAccumulate ==
    /\ pc = "bw_loop"
    /\ sample < Len(saved_tensors.grad_info)
    /\ grad_positions' = accumulate(grad_positions, saved_tensors.grad_info[sample + 1], sample)
    /\ sample' = sample + 1
    /\ UNCHANGED <<pc, inVars, outVars, sphVars, pairVars, needs_input_grad, saved_tensors, psVars>>

\* the loop is over
BwLoopEnd ==
    /\ pc = "bw_loop"
    /\ sample = Len(saved_tensors.grad_info)
    /\ pc' = "bw_checks"
    /\ UNCHANGED <<inVars, outVars, sphVars, pairVars, bwVars, psVars>>

\* no position gradient is asked for
BwSkipPositions ==
    /\ pc = "bw_start"
    /\ ~calculator_check(needs_input_grad)
    /\ ~positions_check(needs_input_grad)
    /\ pc' = "bw_checks"
    /\ UNCHANGED <<inVars, outVars, sphVars, pairVars, bwVars, psVars>>

\* raise ValueError("can not compute gradients w.r.t. cell")
BwRaiseCell ==
    /\ pc = "bw_checks"
    /\ cell_check(needs_input_grad)
    /\ pc' = "raised"
    /\ error' = "can not compute gradients w.r.t. cell"
    /\ UNCHANGED <<inVars, blocks, descriptor, sphVars, pairVars, bwVars, psVars>>

\* return grad_calculator, grad_positions, grad_cell, grad_numbers; the raise of
\* line 321 sits behind numbers_check, which cell_check has already ruled out
BwReturn ==
    /\ pc = "bw_checks"
    /\ ~cell_check(needs_input_grad)
    /\ ~numbers_check(needs_input_grad)
    /\ descriptor' = <<None, grad_positions, None, None>>
    /\ pc' = "returned"
    /\ UNCHANGED <<inVars, blocks, error, sphVars, pairVars, bwVars, psVars>>

BwNext ==
    \/ BwForward \/ BwCall \/ BwRaiseCalculator \/ BwRaiseMissing \/ BwZeros
    \/ BwAccumulate \/ BwLoopEnd \/ BwSkipPositions \/ BwRaiseCell \/ BwReturn

SpecBw == BwInit /\ [][BwNext]_vars

\* C4 (as claimed): backward never returns normally when a gradient is requested
\* with respect to the calculator, the unit cell or the atomic numbers
\* (needs_input_grad true for input 0, 2 or 3).
C4_UnsupportedTargetsFail ==
    pc = "returned" =>
        ~(needs_input_grad[0] \/ needs_input_grad[2] \/ needs_input_grad[3])

(***************************************************************************)
(* compute_power_spectrum (utils/models/soap.py).                          *)
(* A collection is the list of its (key, block) pairs in key order.  The   *)
(* coefficients stay symbolic: a product of two coefficients scaled by     *)
(* factor is the term <<factor, v1, v2>> and a sum of terms is a bag.  The *)
(* factor sqrt(num) / sqrt(den) is kept as the pair of num and den.         *)
(***************************************************************************)
\* lexicographic order of integer tuples of one length (the order of np.unique
\* and np.intersect1d on label rows)
LexLess(a, b) ==
    \E k \in DOMAIN a : a[k] < b[k] /\ \A j \in 1..(k - 1) : a[j] = b[j]

RECURSIVE SortedRows(_)
\* the rows of a set of tuples, sorted
SortedRows(S) ==
    IF S = {} THEN <<>>
    ELSE LET lo == CHOOSE x \in S : \A y \in S : x = y \/ LexLess(x, y)
         IN  <<lo>> \o SortedRows(S \ {lo})

RECURSIVE BagSum(_)
\* the sum of a sequence of bags
BagSum(bs) == IF bs = <<>> THEN EmptyBag ELSE Head(bs) (+) BagSum(Tail(bs))

\* factor * v1 * v2
Term(f, v1, v2) == SetToBag({<<f, v1, v2>>})

\* the input collections: the centres each species has, the (centre species,
\* neighbour species) pairs a collection holds per l, the atoms a gradient can
\* be taken with respect to
PsCentres(cs) == IF cs = 1 THEN {<<0, 0>>, <<0, 1>>} ELSE {<<1, 0>>}
PsSpeciesPairs == <<<<1, 1>>, <<1, 8>>, <<8, 8>>>>
PsGradientAtoms == {{}, {0}, {0, 1}}
\* the sample sets a block of centre species 1 can have: it holds a centre at least
PsSampleSets == (SUBSET PsCentres(1)) \ {{}}

\* values[s, m, n] and gradient data[g, x, m, n] of the block `key` of collection c
PsCoef(c, key, smp, m, n) == <<"x", c, key, smp, m, n>>
PsGradCoef(c, key, smp, atom, x, m, n) == <<"dx", c, key, smp, atom, x, m, n>>

\* a block as a calculator writes it: samples sorted, one gradient sample
\* (sample row, structure, atom) per sample and atom the gradient reaches
PsInputBlock(c, key, centres, atoms, with_gradient, n_properties) ==
    LET smp == SortedRows(centres)
        cmp == spherical_component(key[1])
        gs  == SortedRows({<<r - 1, smp[r][1], a>> : r \in DOMAIN smp, a \in atoms})
    IN  [ samples    |-> smp,
          components |-> cmp,
          properties |-> [n \in 1..n_properties |-> n - 1],
          values     |-> [r \in DOMAIN smp |-> [m \in DOMAIN cmp |-> [n \in 1..n_properties |->
                            PsCoef(c, key, smp[r], cmp[m], n - 1)]]],
          gradients  |->
            IF with_gradient
            THEN <<[ parameter |-> "positions",
                     samples   |-> gs,
                     data      |-> [g \in DOMAIN gs |-> [x \in 1..3 |-> [m \in DOMAIN cmp |->
                                      [n \in 1..n_properties |->
                                         PsGradCoef(c, key, smp[gs[g][1] + 1], gs[g][3],
                                                    x - 1, cmp[m], n - 1)]]]] ]>>
            ELSE <<>> ]

\* a collection over l = 0..MaxAngular: centres(ns) are the samples of the blocks
\* of centre species 1, the blocks of the other centre species hold all its centres
PsCollection(c, centres, atoms, with_gradient, n_properties) ==
    [k \in 1..((MaxAngular + 1) * Len(PsSpeciesPairs)) |->
        LET l   == (k - 1) \div Len(PsSpeciesPairs)
            sp  == PsSpeciesPairs[((k - 1) % Len(PsSpeciesPairs)) + 1]
            key == <<l, sp[1], sp[2]>>
        IN  [ key   |-> key,
              block |-> PsInputBlock(c, key,
                            IF sp[1] = 1 THEN centres[sp[2]] ELSE PsCentres(sp[1]),
                            atoms[sp[2]], with_gradient, n_properties) ]]

\* np.intersect1d(spx_1.samples, spx_2.samples): the sorted common rows
intersect1d(a, b) == SortedRows(Range(a) \cap Range(b))

\* equistore.operations.slice_block(block, samples=...): the rows of the block
\* whose sample is listed, in the block's order; the gradient rows of the rows
\* kept, their `sample` renumbered to the new position of the row
slice_block(b, smp) ==
    LET keep   == SelectSeq([r \in DOMAIN b.samples |-> r], LAMBDA r : b.samples[r] \in Range(smp))
        newpos == [r \in Range(keep) |-> CHOOSE k \in DOMAIN keep : keep[k] = r]
    IN  [ samples    |-> [k \in DOMAIN keep |-> b.samples[keep[k]]],
          components |-> b.components,
          properties |-> b.properties,
          values     |-> [k \in DOMAIN keep |-> b.values[keep[k]]],
          gradients  |->
            [q \in DOMAIN b.gradients |->
                LET gr    == b.gradients[q]
                    gkeep == SelectSeq([g \in DOMAIN gr.samples |-> g],
                                       LAMBDA g : (gr.samples[g][1] + 1) \in Range(keep))
                IN  [ parameter |-> gr.parameter,
                      samples   |-> [k \in DOMAIN gkeep |->
                                       <<newpos[gr.samples[gkeep[k]][1] + 1] - 1,
                                         gr.samples[gkeep[k]][2], gr.samples[gkeep[k]][3]>>],
                      data      |-> [k \in DOMAIN gkeep |-> gr.data[gkeep[k]]] ]] ]

\* lines 54-61: both blocks restricted to their common samples when the samples differ
restricted(b, other) ==
    IF b.samples # other.samples THEN slice_block(b, intersect1d(b.samples, other.samples)) ELSE b

\* the symmetric skip that skips nothing
symmetric_skip_never(ns1, ns2, same) == FALSE

\* line 70: `if ns1 > ns2 and use_same_spherical_expansions: continue`
symmetric_skip(ns1, ns2, same) == ns1 > ns2 /\ same

\* lines 72-75: 1 / sqrt(2 l + 1) when ns1 == ns2, sqrt(2) / sqrt(2 l + 1) otherwise
factor(l1, ns1, ns2) ==
    IF ns1 = ns2 THEN [num |-> 1, den |-> 2 * l1 + 1] ELSE [num |-> 2, den |-> 2 * l1 + 1]

\* lines 77-88: properties_1 + properties_2 for properties_1, for properties_2
power_spectrum_properties(b1, b2) ==
    LET n2 == Len(b2.properties)
    IN  [k \in 1..(Len(b1.properties) * n2) |->
            <<b1.properties[((k - 1) \div n2) + 1], b2.properties[((k - 1) % n2) + 1]>>]

\* the contraction flattened with the properties of block 2 as the slow axis
contraction_b_major(f, b1, b2) ==
    LET n1 == Len(b1.properties)
    IN  [r \in DOMAIN b1.samples |-> [k \in 1..(n1 * Len(b2.properties)) |->
            BagSum([m \in DOMAIN b1.components |->
                Term(f, b1.values[r][m][((k - 1) % n1) + 1],
                        b2.values[r][m][((k - 1) \div n1) + 1])])]]

\* lines 91 and 94: factor * einsum("ima, imb -> iab").reshape(n_samples, -1)
contraction(f, b1, b2) ==
    LET n2 == Len(b2.properties)
    IN  [r \in DOMAIN b1.samples |-> [k \in 1..(Len(b1.properties) * n2) |->
            BagSum([m \in DOMAIN b1.components |->
                Term(f, b1.values[r][m][((k - 1) \div n2) + 1],
                        b2.values[r][m][((k - 1) % n2) + 1])])]]

\* lines 109-116: np.unique(np.concatenate([gradient_1.samples, gradient_2.samples]))
gradients_samples(g1, g2) == SortedRows(Range(g1.samples) \cup Range(g2.samples))

\* lines 126-130: factor * einsum("ixma, imb -> ixab", gradient_1.data,
\* spx_2.values[gradient_1.samples["sample"]]) flattened over (a, b)
gradient_data_1(f, g1, b1, b2) ==
    LET n2 == Len(b2.properties)
    IN  [g \in DOMAIN g1.samples |-> [x \in 1..3 |->
            [k \in 1..(Len(b1.properties) * n2) |->
                BagSum([m \in DOMAIN b1.components |->
                    Term(f, g1.data[g][x][m][((k - 1) \div n2) + 1],
                            b2.values[g1.samples[g][1] + 1][m][((k - 1) % n2) + 1])])]]]

\* lines 136-140: factor * einsum("ima, ixmb -> ixab",
\* spx_1.values[gradient_2.samples["sample"]], gradient_2.data) flattened over (a, b)
gradient_data_2(f, g2, b1, b2) ==
    LET n2 == Len(b2.properties)
    IN  [g \in DOMAIN g2.samples |-> [x \in 1..3 |->
            [k \in 1..(Len(b1.properties) * n2) |->
                BagSum([m \in DOMAIN b1.components |->
                    Term(f, b1.values[g2.samples[g][1] + 1][m][((k - 1) \div n2) + 1],
                            g2.data[g][x][m][((k - 1) % n2) + 1])])]]]

\* the accumulation that assigns a row instead of adding to it: the term of
\* block 2 replaces the term of block 1 on the samples both sides have
gradient_data_overwrite(f, g1, g2, b1, b2) ==
    LET gs == gradients_samples(g1, g2)
        d1 == gradient_data_1(f, g1, b1, b2)
        d2 == gradient_data_2(f, g2, b1, b2)
    IN  [row \in DOMAIN gs |-> [x \in 1..3 |->
            [k \in 1..(Len(b1.properties) * Len(b2.properties)) |->
                IF gs[row] \in Range(g2.samples)
                THEN d2[CHOOSE g \in DOMAIN g2.samples : g2.samples[g] = gs[row]][x][k]
                ELSE d1[CHOOSE g \in DOMAIN g1.samples : g1.samples[g] = gs[row]][x][k]]]]

\* lines 118-144: the rows of both terms added into the row of their sample
gradient_data(f, g1, g2, b1, b2) ==
    LET gs == gradients_samples(g1, g2)
        d1 == gradient_data_1(f, g1, b1, b2)
        d2 == gradient_data_2(f, g2, b1, b2)
    IN  [row \in DOMAIN gs |-> [x \in 1..3 |->
            [k \in 1..(Len(b1.properties) * Len(b2.properties)) |->
                BagSum([g \in DOMAIN g1.samples |->
                          IF g1.samples[g] = gs[row] THEN d1[g][x][k] ELSE EmptyBag])
                (+)
                BagSum([g \in DOMAIN g2.samples |->
                          IF g2.samples[g] = gs[row] THEN d2[g][x][k] ELSE EmptyBag])]]]

\* the gradient skip that asks for both sample sets to be empty
gradient_skip_both(b1, b2) ==
    /\ has_gradient(b1)
    /\ Len(gradient(b1).samples) = 0 /\ Len(gradient(b2).samples) = 0

\* lines 102-107: gradients are active and one of the two gradient sample sets is empty
gradient_skip(b1, b2) ==
    /\ has_gradient(b1)
    /\ (Len(gradient(b1).samples) = 0 \/ Len(gradient(b2).samples) = 0)

\* lines 93-98 and 102-152: the block of one pair, b1 and b2 already restricted
power_spectrum_block(f, b1, b2) ==
    [ samples    |-> b1.samples,
      components |-> <<>>,
      properties |-> power_spectrum_properties(b1, b2),
      values     |-> contraction(f, b1, b2),
      gradients  |->
        IF has_gradient(b1)
        THEN <<[ parameter |-> "positions",
                 samples   |-> gradients_samples(gradient(b1), gradient(b2)),
                 data      |-> gradient_data(f, gradient(b1), gradient(b2), b1, b2) ]>>
        ELSE <<>> ]

\* the pair the inner loop is at
Key1 == spherical_expansion_1[i1].key
Key2 == spherical_expansion_2[i2 + 1].key
Spx2 == spherical_expansion_2[i2 + 1].block
InPair == pc = "ps_loop" /\ i1 >= 1 /\ i2 < Len(spherical_expansion_2)
Matching == Key1[1] = Key2[1] /\ Key1[2] = Key2[2]
\* spx_1 and spx_2 after lines 54-61
Block1 == restricted(spx_1, Spx2)
Block2 == restricted(Spx2, spx_1)
\* Labels(values=np.asarray([])) for an empty intersection: the array is not 2-D
EmptyCommonSamples ==
    spx_1.samples # Spx2.samples /\ Range(spx_1.samples) \cap Range(Spx2.samples) = {}

PsInit ==
    /\ pc = "ps_start"
    /\ frames = <<>>
    /\ hypers = None
    /\ SphIdle /\ PairIdle /\ BwIdle
    /\ blocks = <<>>
    /\ descriptor = None
    /\ error = None
    /\ keys = <<>>
    /\ i1 = 0
    /\ i2 = 0
    /\ spx_1 = None
    /\ skipped = <<>>
    /\ use_same_spherical_expansions = FALSE
    /\ \E grad_1 \in BOOLEAN, grad_2 \in BOOLEAN,
          atoms \in [{1, 8} -> PsGradientAtoms],
          centres_1 \in [{1, 8} -> PsSampleSets] :
        /\ (grad_1 /\ grad_2) \/ atoms = [ns \in {1, 8} |-> {0}]
        /\ spherical_expansion_1 = PsCollection(1, centres_1, atoms, grad_1, MaxRadial)
        /\ \/ /\ spherical_expansion_2 = NoCollection
              /\ grad_2 = grad_1
           \/ \E centres_2 \in [{1, 8} -> PsSampleSets] :
                spherical_expansion_2 =
                    PsCollection(2, centres_2, atoms, grad_2, MaxRadial + 1)

\* lines 34-46
PsStart ==
    /\ pc = "ps_start"
    /\ use_same_spherical_expansions' = (spherical_expansion_2 = NoCollection)
    /\ spherical_expansion_2' =
         IF spherical_expansion_2 = NoCollection
         THEN spherical_expansion_1 ELSE spherical_expansion_2
    /\ pc' = "ps_loop"
    /\ UNCHANGED <<inVars, outVars, sphVars, pairVars, bwVars,
                   spherical_expansion_1, keys, i1, i2, spx_1, skipped>>

\* `for (l1, cs1, ns1), spx_1 in spherical_expansion_1`: the next block is bound
PsOuter ==
    /\ pc = "ps_loop"
    /\ i1 = 0 \/ i2 = Len(spherical_expansion_2)
    /\ i1 < Len(spherical_expansion_1)
    /\ i1' = i1 + 1
    /\ i2' = 0
    /\ spx_1' = spherical_expansion_1[i1 + 1].block
    /\ UNCHANGED <<pc, inVars, outVars, sphVars, pairVars, bwVars,
                   spherical_expansion_1, spherical_expansion_2,
                   use_same_spherical_expansions, keys, skipped>>

\* lines 50-51: `if l1 != l2 or cs1 != cs2: continue`
PsMismatch ==
    /\ InPair
    /\ ~Matching
    /\ i2' = i2 + 1
    /\ UNCHANGED <<pc, inVars, outVars, sphVars, pairVars, bwVars,
                   spherical_expansion_1, spherical_expansion_2,
                   use_same_spherical_expansions, keys, i1, spx_1, skipped>>

\* lines 55-58: the label of an empty intersection cannot be built
PsLabelsError ==
    /\ InPair
    /\ Matching
    /\ EmptyCommonSamples
    /\ pc' = "raised"
    /\ error' = "values must be a 2D array"
    /\ UNCHANGED <<inVars, blocks, descriptor, sphVars, pairVars, bwVars, psVars>>

\* lines 54-71: the blocks are restricted, then the pair is left as the mirror
\* image of another one
PsSymmetricSkip ==
    /\ InPair
    /\ Matching
    /\ symmetric_skip(Key1[3], Key2[3], use_same_spherical_expansions)
    /\ spx_1' = Block1
    /\ i2' = i2 + 1
    /\ UNCHANGED <<pc, inVars, outVars, sphVars, pairVars, bwVars,
                   spherical_expansion_1, spherical_expansion_2,
                   use_same_spherical_expansions, keys, i1, skipped>>

\* line 104: spx_2.gradient("positions") of a block without gradient
PsGradientError ==
    /\ InPair
    /\ Matching
    /\ ~symmetric_skip(Key1[3], Key2[3], use_same_spherical_expansions)
    /\ has_gradient(Block1)
    /\ ~has_gradient(Block2)
    /\ pc' = "raised"
    /\ error' = "can not find gradients with respect to positions in this block"
    /\ UNCHANGED <<inVars, blocks, descriptor, sphVars, pairVars, bwVars, psVars>>

\* lines 106-107: `continue` on an empty gradient sample set
PsGradientSkip ==
    /\ InPair
    /\ Matching
    /\ ~symmetric_skip(Key1[3], Key2[3], use_same_spherical_expansions)
    /\ has_gradient(Block1) => has_gradient(Block2)
    /\ gradient_skip(Block1, Block2)
    /\ spx_1' = Block1
    /\ i2' = i2 + 1
    /\ skipped' = Append(skipped, <<Key1[1], Key1[2], Key1[3], Key2[3]>>)
    /\ UNCHANGED <<pc, inVars, outVars, sphVars, pairVars, bwVars,
                   spherical_expansion_1, spherical_expansion_2,
                   use_same_spherical_expansions, keys, i1>>

\* lines 54-155: the pair is contracted, its key and block are recorded
PsRecord ==
    /\ InPair
    /\ Matching
    /\ ~symmetric_skip(Key1[3], Key2[3], use_same_spherical_expansions)
    /\ has_gradient(Block1) => has_gradient(Block2)
    /\ ~gradient_skip(Block1, Block2)
    /\ spx_1' = Block1
    /\ i2' = i2 + 1
    /\ keys' = Append(keys, <<Key1[1], Key1[2], Key1[3], Key2[3]>>)
    /\ blocks' = Append(blocks,
            power_spectrum_block(factor(Key1[1], Key1[3], Key2[3]), Block1, Block2))
    /\ UNCHANGED <<pc, inVars, descriptor, error, sphVars, pairVars, bwVars,
                   spherical_expansion_1, spherical_expansion_2,
                   use_same_spherical_expansions, i1, skipped>>

\* descriptor.keys_to_properties("spherical_harmonics_l"): the keys left once the
\* l column is folded into the properties
keys_to_properties(ks) == {<<ks[k][2], ks[k][3], ks[k][4]>> : k \in DOMAIN ks}

\* lines 157-168: TensorMap(keys, blocks), then the fold of spherical_harmonics_l
PsReturn ==
    /\ pc = "ps_loop"
    /\ i1 = Len(spherical_expansion_1)
    /\ i2 = Len(spherical_expansion_2)
    /\ descriptor' = [keys |-> keys, blocks |-> blocks, folded_keys |-> keys_to_properties(keys)]
    /\ pc' = "done"
    /\ UNCHANGED <<inVars, blocks, error, sphVars, pairVars, bwVars, psVars>>

PsNext ==
    \/ PsStart \/ PsOuter \/ PsMismatch \/ PsLabelsError \/ PsSymmetricSkip
    \/ PsGradientError \/ PsGradientSkip \/ PsRecord \/ PsReturn

SpecPS == PsInit /\ [][PsNext]_vars

(***************************************************************************)
(* Properties of compute_power_spectrum                                    *)
(***************************************************************************)
\* number of times row x occurs in the list s
Count(s, x) == Cardinality({k \in DOMAIN s : s[k] = x})

\* the block a collection holds for a key, as it was passed in
InputBlock(collection, key) ==
    (CHOOSE e \in Range(collection) : e.key = key).block

\* the factors of the terms a block's values are made of
FactorsOf(b) ==
    UNION {UNION {{t[1] : t \in BagToSet(b.values[r][k])} : k \in DOMAIN b.values[r]} :
           r \in DOMAIN b.values}

\* C3 (as claimed): with spherical_expansion_2 = None, for blocks (l, cs, ns1) and
\* (l, cs, ns2) of the input with ns1 < ns2, the recorded keys hold (l, cs, ns1, ns2)
\* exactly once and never (l, cs, ns2, ns1), and the block is scaled by
\* sqrt(2) / sqrt(2 l + 1).
C3_ExactlyOneOfEachMirrorPair ==
    (pc = "done" /\ use_same_spherical_expansions) =>
        \A e1, e2 \in Range(spherical_expansion_1) :
            (e1.key[1] = e2.key[1] /\ e1.key[2] = e2.key[2] /\ e1.key[3] < e2.key[3]) =>
                /\ Count(keys, <<e1.key[1], e1.key[2], e2.key[3], e1.key[3]>>) = 0
                /\ Count(keys, <<e1.key[1], e1.key[2], e1.key[3], e2.key[3]>>) = 1
                /\ \A k \in DOMAIN keys :
                     keys[k] = <<e1.key[1], e1.key[2], e1.key[3], e2.key[3]>> =>
                        FactorsOf(blocks[k]) \subseteq {[num |-> 2, den |-> 2 * e1.key[1] + 1]}

\* C3 (amended): with spherical_expansion_2 = None, the recorded keys never hold
\* (l, cs, ns2, ns1) for ns1 < ns2 and hold (l, cs, ns1, ns2) at most once, its
\* block scaled by sqrt(2) / sqrt(2 l + 1); once the call returns the key is
\* recorded exactly once unless the pair was left at the empty-gradient
\* `continue`, in which case it is not recorded at all.
C3_AtMostOneOfEachMirrorPair ==
    use_same_spherical_expansions =>
        \A e1, e2 \in Range(spherical_expansion_1) :
            (e1.key[1] = e2.key[1] /\ e1.key[2] = e2.key[2] /\ e1.key[3] < e2.key[3]) =>
                LET lo == <<e1.key[1], e1.key[2], e1.key[3], e2.key[3]>>
                    hi == <<e1.key[1], e1.key[2], e2.key[3], e1.key[3]>>
                IN  /\ Count(keys, hi) = 0
                    /\ Count(keys, lo) <= 1
                    /\ pc = "done" => Count(keys, lo) + Count(skipped, lo) = 1
                    /\ \A k \in DOMAIN keys :
                         keys[k] = lo =>
                            FactorsOf(blocks[k]) \subseteq {[num |-> 2, den |-> 2 * e1.key[1] + 1]}

\* C3 witness: a self-combination has returned with a key of two different
\* neighbour species whose block holds samples and carries a gradient
C3_Witness ==
    /\ pc = "done"
    /\ use_same_spherical_expansions
    /\ \E k \in DOMAIN keys :
         /\ keys[k][3] < keys[k][4]
         /\ Len(blocks[k].samples) > 0
         /\ has_gradient(blocks[k])

\* C5 (as claimed): the samples of every recorded block are the intersection, by
\* value, of the samples of the two input blocks of its key.
C5_SamplesAreIntersection ==
    \A k \in DOMAIN keys :
        k \in DOMAIN blocks =>
            Range(blocks[k].samples) =
                Range(InputBlock(spherical_expansion_1, <<keys[k][1], keys[k][2], keys[k][3]>>).samples)
                \cap
                Range(InputBlock(spherical_expansion_2, <<keys[k][1], keys[k][2], keys[k][4]>>).samples)

\* the row of sample smp in block b
RowOf(b, smp) == CHOOSE r \in DOMAIN b.samples : b.samples[r] = smp

NoGradientSampleLeft(b, other) ==
    \A g \in DOMAIN gradient(b).samples :
        b.samples[gradient(b).samples[g][1] + 1] \notin Range(other.samples)

\* one step of the loops against C10
C10_Step ==
    InPair =>
        LET key4 == <<Key1[1], Key1[2], Key1[3], Key2[3]>>
            recorded ==
                /\ keys' = Append(keys, key4)
                /\ Len(blocks') = Len(blocks) + 1
                /\ SubSeq(blocks', 1, Len(blocks)) = blocks
        IN  /\ (keys' = keys /\ blocks' = blocks) \/ recorded
            /\ ( /\ Matching
                 /\ has_gradient(spx_1)
                 /\ has_gradient(Spx2)
                 /\ NoGradientSampleLeft(spx_1, Spx2) \/ NoGradientSampleLeft(Spx2, spx_1) )
               => (keys' = keys /\ blocks' = blocks)
            /\ ( /\ Matching
                 /\ i2' = i2 + 1
                 /\ ~(use_same_spherical_expansions /\ Key1[3] > Key2[3])
                 /\ ~has_gradient(spx_1) )
               => (recorded /\ ~has_gradient(blocks'[Len(blocks')]))

\* C10: when gradients are active and the gradient sample set of block_1 or of
\* block_2 is empty, the pair records neither a key nor a block; keys and blocks
\* have the same length after every pair and a step adds to both or to none; a
\* pair whose block_1 carries no gradient is recorded without a gradient.
C10_EmptyGradientPairSkipped ==
    [](Len(keys) = Len(blocks)) /\ [][C10_Step]_vars

\* C10 witness: a pair has been skipped for an empty gradient sample set after
\* another pair was recorded with its gradient
C10_Witness ==
    /\ Len(skipped) > 0
    /\ \E k \in DOMAIN blocks :
         has_gradient(blocks[k]) /\ Len(gradient(blocks[k]).samples) > 0

\* the row of gradient sample g in the gradient gr
GradientRowOf(gr, g) == CHOOSE r \in DOMAIN gr.samples : gr.samples[r] = g

\* the term of block 1 for the union sample g: factor * sum_m grad_1[g, x, m, a] *
\* block_2[sample(g), m, b], nothing when g is no gradient sample of block 1
C11_Term1(f, g, x, a, b, g1, b1, b2) ==
    IF g \in Range(g1.samples)
    THEN BagSum([m \in DOMAIN b1.components |->
            Term(f, g1.data[GradientRowOf(g1, g)][x][m][a], b2.values[g[1] + 1][m][b])])
    ELSE EmptyBag

\* the term of block 2 for the union sample g: factor * sum_m block_1[sample(g), m, a] *
\* grad_2[g, x, m, b], nothing when g is no gradient sample of block 2
C11_Term2(f, g, x, a, b, g2, b1, b2) ==
    IF g \in Range(g2.samples)
    THEN BagSum([m \in DOMAIN b1.components |->
            Term(f, b1.values[g[1] + 1][m][a], g2.data[GradientRowOf(g2, g)][x][m][b])])
    ELSE EmptyBag

\* one step of the loops against C11: block_1 and block_2 are the two blocks of
\* the pair as lines 109-144 hold them, after the restriction to common samples
C11_Step ==
    (InPair /\ Len(blocks') = Len(blocks) + 1 /\ has_gradient(blocks'[Len(blocks')])) =>
        LET nb == blocks'[Len(blocks')]
            gr == gradient(nb)
            b1 == Block1
            b2 == Block2
            g1 == gradient(b1)
            g2 == gradient(b2)
            f  == factor(Key1[1], Key1[3], Key2[3])
            n1 == Len(b1.properties)
            n2 == Len(b2.properties)
        IN  /\ gr.parameter = "positions"
            /\ IsDistinct(gr.samples)
            /\ Range(gr.samples) = Range(g1.samples) \cup Range(g2.samples)
            /\ Len(gr.data) = Len(gr.samples)
            /\ \A r \in DOMAIN gr.samples : \A x \in 1..3 :
                 /\ Len(gr.data[r][x]) = n1 * n2
                 /\ \A a \in 1..n1, b \in 1..n2 :
                      gr.data[r][x][(a - 1) * n2 + b] =
                          C11_Term1(f, gr.samples[r], x, a, b, g1, b1, b2)
                          (+) C11_Term2(f, gr.samples[r], x, a, b, g2, b1, b2)

\* C11: every output block of compute_power_spectrum with a positions gradient
\* has as gradient samples the union, without duplicates, of the gradient samples
\* of block_1 and block_2, and the gradient row of a union sample is the sum of
\* the block_1 term (if the sample is one of block_1) and the block_2 term (if it
\* is one of block_2): one-sided samples get one term, nothing is lost or doubled.
C11_GradientUnionAndSum ==
    [][C11_Step]_vars

\* C11 witness: a recorded block whose gradient has a row made of both terms and
\* a row made of the term of one side only
C11_Witness ==
    \E k \in DOMAIN blocks :
        /\ k \in DOMAIN keys
        /\ has_gradient(blocks[k])
        /\ \E r1, r2 \in DOMAIN gradient(blocks[k]).data :
             /\ BagCardinality(gradient(blocks[k]).data[r1][1][1]) = 2 * (2 * keys[k][1] + 1)
             /\ BagCardinality(gradient(blocks[k]).data[r2][1][1]) = 2 * keys[k][1] + 1

\* only the position gradient is requested
OnlyPositions == needs_input_grad = [k \in 0..3 |-> k = 1]

\* the sum, over the saved metadata rows r whose neighbour is atom a (0-based),
\* of dot(grad_output[center(r), :], saved_gradient[3 r + x, :])
C12_Entry(a, x) ==
    LET ginf == saved_tensors.grad_info
    IN  BagSum([r \in DOMAIN ginf |->
            IF ginf[r][3] = a THEN Dot(ginf[r][2], 3 * (r - 1) + x) ELSE EmptyBag])

\* C12: when only position gradients are requested and the calculator computed
\* gradients, backward returns (None, grad_positions, None, None) where the
\* entry [a, x] is the sum over the metadata rows r with neighbour a of
\* dot(grad_output[center(r)], saved_gradient[3 r + x]); an atom that is the
\* neighbour of no row gets zero and every row counts once per direction.
C12_PositionGradient ==
    (pc = "returned" /\ OnlyPositions
        /\ saved_tensors.grad_spherical_expansion_shape[2] # 0) =>
        /\ descriptor[1] = None /\ descriptor[3] = None /\ descriptor[4] = None
        /\ Len(descriptor[2]) = Len(frames[1])
        /\ \A a \in 1..Len(frames[1]) : \A x \in 1..3 :
             /\ descriptor[2][a][x] = C12_Entry(a - 1, x - 1)
             /\ \A t \in BagToSet(descriptor[2][a][x]) :
                  CopiesIn(t, descriptor[2][a][x]) = 1
        /\ \A r \in DOMAIN saved_tensors.grad_info : \A x \in 1..3 :
             BagIn(<<saved_tensors.grad_info[r][2], 3 * (r - 1) + x - 1>>,
                   descriptor[2][saved_tensors.grad_info[r][3] + 1][x])

\* C12 witness: backward has returned a position gradient in which one atom
\* collects the rows of two different centres and of two periodic images
C12_Witness ==
    /\ pc = "returned" /\ OnlyPositions
    /\ saved_tensors.grad_spherical_expansion_shape[2] # 0
    /\ \E a \in 1..Len(frames[1]) :
         /\ BagCardinality(descriptor[2][a][1]) >= 4
         /\ Cardinality({t[1] : t \in BagToSet(descriptor[2][a][1])}) >= 2

====
